---- MODULE Spec2Model ----
(***************************************************************************)
(* A model of install-vm.py: the single-shot provisioning pipeline         *)
(*   check_environment -> download_artifact -> partition_disk ->           *)
(*   extract_tarball -> generate_fstab -> configure_chroot -> completion.  *)
(*                                                                         *)
(* Text is modelled by TLA+ strings, on which Len, SubSeq and \o act as on *)
(* sequences of characters.  The outside world (the host, the GitHub API,  *)
(* the operator at the terminal, the exit status of every external tool)   *)
(* is a nondeterministic choice from small sets.  A second, "shadow" run   *)
(* that receives the same inputs and outcomes but other secrets records    *)
(* what that run prints and issues (printed2, cmds2).                      *)
(***************************************************************************)
EXTENDS Integers, Sequences, FiniteSets, TLC

VARIABLES
    pc,             \* position of the process in main() and its callees
    ip,             \* index of the next command / prompt inside the current function
    exit_status,    \* the process's exit status, meaningful when pc = "exited"
    euid,           \* os.geteuid()
    archiso,        \* os.path.exists("/run/archiso")
    efi,            \* os.path.exists("/sys/firmware/efi")
    dmi,            \* /sys/class/dmi/id/product_name: [readable, content]
    dev_size,       \* size of /dev/sda in MiB
    printed,        \* everything written to the terminal, line by line
    cmds,           \* every command handed to subprocess.run, in order:
                    \* [line, tool, status], tool the exit status of the tool
                    \* the line starts, status the exit status of its shell
    requests,       \* every requests.get, in order: [url, status_code],
                    \* status_code 0 when the call raised
    answers,        \* what the operator did at each prompt, in order:
                    \* [prompt, kind, text], text the echoed line the program keeps
    artifacts,      \* download_artifact: the "artifacts" list of the listing
    download_url,   \* download_artifact: artifact["archive_download_url"]
    archive,        \* download_artifact: the entries of the downloaded zip
    tarball,        \* the path download_artifact returns (main's `tarball`)
    cwd,            \* files of the working directory: {[path, size in bytes]}
    disk,           \* state of /dev/sda: labels, partitions, filesystems, mounts
    disk0,          \* the state /dev/sda had when the process started
    root,           \* what the program has put under /mnt
    identity,       \* hostname, username, user_password, root_password
    identity2,      \* the identity of the shadow run (same but for the secrets)
    printed2,       \* what the shadow run prints
    cmds2,          \* the command lines the shadow run issues
    stages          \* the calls main() has made, and the ones that returned

vars == <<pc, ip, exit_status, euid, archiso, efi, dmi, dev_size, printed, cmds,
          requests, answers, artifacts, download_url, archive, tarball, cwd, disk, disk0,
          root, identity, identity2, printed2, cmds2, stages>>

----------------------------------------------------------------------------
(* Bounds of the model *)

MaxListing == 2     \* longest artifact listing the API returns
MaxEntries == 2     \* most entries in the downloaded zip archive

----------------------------------------------------------------------------
(* Text helpers: str.endswith, `in`, str.strip, os.path.dirname/basename *)

EndsWith(s, suffix) ==
    /\ Len(s) >= Len(suffix)
    /\ SubSeq(s, Len(s) - Len(suffix) + 1, Len(s)) = suffix

StartsWith(s, prefix) ==
    /\ Len(s) >= Len(prefix)
    /\ SubSeq(s, 1, Len(prefix)) = prefix

Contains(s, t) ==
    \E i \in 1..(Len(s) - Len(t) + 1) : SubSeq(s, i, i + Len(t) - 1) = t

IsSpace(c) == c \in {" ", "\n", "\t"}

RECURSIVE LStrip(_)
LStrip(s) ==
    IF Len(s) > 0 /\ IsSpace(SubSeq(s, 1, 1)) THEN LStrip(SubSeq(s, 2, Len(s))) ELSE s

RECURSIVE RStrip(_)
RStrip(s) ==
    IF Len(s) > 0 /\ IsSpace(SubSeq(s, Len(s), Len(s)))
    THEN RStrip(SubSeq(s, 1, Len(s) - 1)) ELSE s

Strip(s) == RStrip(LStrip(s))

\* index of the last "/" of p, 0 when there is none
LastSlash(p) ==
    LET at == {i \in 1..Len(p) : SubSeq(p, i, i) = "/"}
    IN  IF at = {} THEN 0 ELSE CHOOSE i \in at : \A j \in at : j <= i

Basename(p) == SubSeq(p, LastSlash(p) + 1, Len(p))

\* posixpath.dirname: the head up to the last "/", its trailing slashes removed
\* unless it consists of slashes only
RECURSIVE DropTrailingSlashes(_)
DropTrailingSlashes(h) ==
    IF Len(h) > 0 /\ SubSeq(h, Len(h), Len(h)) = "/"
    THEN DropTrailingSlashes(SubSeq(h, 1, Len(h) - 1)) ELSE h

Dirname(p) ==
    LET head == SubSeq(p, 1, LastSlash(p))
    IN  IF DropTrailingSlashes(head) = "" THEN head ELSE DropTrailingSlashes(head)

\* the components of p between its "/" characters
RECURSIVE SplitPath(_)
SplitPath(p) ==
    LET at == {i \in 1..Len(p) : SubSeq(p, i, i) = "/"}
        first == CHOOSE i \in at : \A j \in at : i <= j
    IN  IF at = {} THEN <<p>>
        ELSE <<SubSeq(p, 1, first - 1)>> \o SplitPath(SubSeq(p, first + 1, Len(p)))

RECURSIVE JoinPath(_)
JoinPath(parts) ==
    IF Len(parts) = 0 THEN ""
    ELSE IF Len(parts) = 1 THEN parts[1]
    ELSE parts[1] \o "/" \o JoinPath(Tail(parts))

\* ZipFile.extract(member, path="."): the path below "." the member is
\* written to; empty, "." and ".." components of the member name are dropped
ZipArcname(name) ==
    JoinPath(SelectSeq(SplitPath(name), LAMBDA x : x \notin {"", ".", ".."}))

IsAbsolute(p) == Len(p) > 0 /\ SubSeq(p, 1, 1) = "/"

----------------------------------------------------------------------------
(* The outside world *)

ProductNames ==
    { "VirtualBox\n", "VMware Virtual Platform\n", "vmware\n",
      "Standard PC (Q35 + ICH9, 2009)\n", "" }

DeviceSizes == {1024, 8192, 10241, 20480}      \* MiB

api_url == "https://api.github.com/repos/soroushalinia/arch-custom-actions/actions/artifacts"

ArtifactEntries ==
    { [name |-> "arch-installation", archive_download_url |-> api_url \o "/1/zip"],
      [name |-> "arch-installation", archive_download_url |-> api_url \o "/2/zip"],
      [name |-> "arch-installation", archive_download_url |-> ""],
      [name |-> "build-logs",        archive_download_url |-> api_url \o "/3/zip"] }

RECURSIVE SeqsUpTo(_, _)
SeqsUpTo(S, n) ==
    IF n = 0 THEN {<<>>}
    ELSE LET shorter == SeqsUpTo(S, n - 1)
         IN  shorter \cup {Append(q, x) : q \in shorter, x \in S}

Listings == SeqsUpTo(ArtifactEntries, MaxListing)

\* what requests.get(api_url) does: raises, or returns a status and a body
ListingResponses ==
    {[raised |-> TRUE, status_code |-> 0, artifacts |-> <<>>]}
        \cup {[raised |-> FALSE, status_code |-> 403, artifacts |-> <<>>]}
        \cup {[raised |-> FALSE, status_code |-> 200, artifacts |-> l] : l \in Listings}

EntryNames ==
    { "arch-custom-rootfs.tar.zst",
      "build/arch-custom-rootfs.tar.zst",
      "old-arch-custom-rootfs.tar.zst",
      "/arch-custom-rootfs.tar.zst",
      "arch-custom-rootfs.tar.zst.sha256" }

ZipEntries == {[name |-> n, size |-> k] : n \in EntryNames, k \in {0, 5}}

\* what requests.get(download_url) does; zip = FALSE: the body is no zip archive
ArchiveResponses ==
    {[raised |-> TRUE, status_code |-> 0, zip |-> FALSE, entries |-> <<>>]}
        \cup {[raised |-> FALSE, status_code |-> 404, zip |-> FALSE, entries |-> <<>>]}
        \cup {[raised |-> FALSE, status_code |-> 404, zip |-> TRUE, entries |-> e] :
                e \in SeqsUpTo(ZipEntries, 1)}
        \cup {[raised |-> FALSE, status_code |-> 200, zip |-> FALSE, entries |-> <<>>]}
        \cup {[raised |-> FALSE, status_code |-> 200, zip |-> TRUE, entries |-> e] :
                e \in SeqsUpTo(ZipEntries, MaxEntries)}

\* what the operator does at a prompt: type a line, press Ctrl+C, or close stdin
Interrupt == "^C"
EndOfFile == "^D"

HostnamesTyped == {"vmhost", " vmhost "}
UsernamesTyped == {"alice", "hunter2"}
SecretsTyped   == {"hunter2", " s3cret "}

----------------------------------------------------------------------------
(* The state after the interpreter has loaded the module, before main() *)

NoIdentity == [hostname |-> "", username |-> "", user_password |-> "", root_password |-> ""]

Init ==
    /\ pc = "check_environment"
    /\ ip = 0
    /\ exit_status = 0
    /\ euid \in {0, 1000}
    /\ archiso \in BOOLEAN
    /\ efi \in BOOLEAN
    /\ dmi \in {[readable |-> FALSE, content |-> ""]}
                \cup {[readable |-> TRUE, content |-> c] : c \in ProductNames}
    /\ dev_size \in DeviceSizes
    /\ printed = <<>>
    /\ cmds = <<>>
    /\ requests = <<>>
    /\ answers = <<>>
    /\ artifacts = <<>>
    /\ download_url = ""
    /\ archive = <<>>
    /\ tarball = ""
    /\ cwd = {}
    /\ disk \in {[table |-> "original", signatures |-> "original", parts |-> <<>>,
                  mounted |-> m, mounts |-> {}, swap |-> {}] : m \in BOOLEAN}
    /\ disk0 = disk
    /\ root = [extracted |-> FALSE, fstab |-> FALSE, boot_dir |-> FALSE,
               script |-> <<>>, script_mode |-> "", ran |-> <<>>, missing |-> "",
               configured |-> FALSE]
    /\ identity = NoIdentity
    /\ identity2 = NoIdentity
    /\ printed2 = <<>>
    /\ cmds2 = <<>>
    /\ stages = [called |-> <<>>, returned |-> <<>>]

----------------------------------------------------------------------------
(* Steps shared by the actions *)

\* print(...) in both runs
Say(lines) ==
    /\ printed' = printed \o lines
    /\ printed2' = printed2 \o lines

\* a failure after which the step that failed is tried again
ExitAndRetry(status) == UNCHANGED <<pc, ip, exit_status>>

\* sys.exit(status), or the interpreter ending on an uncaught exception
Exit(status) ==
    /\ pc' = "exited"
    /\ ip' = 0
    /\ exit_status' = status

\* what the interpreter writes for an uncaught exception
Traceback(exception) == "Traceback (most recent call last): ... " \o exception

\* main() calls f; f returns to main()
Call(f) == [stages EXCEPT !.called = Append(@, f)]
Return(f) == [stages EXCEPT !.returned = Append(@, f)]
CallAndReturn(f) == [called |-> Append(stages.called, f), returned |-> Append(stages.returned, f)]

----------------------------------------------------------------------------
(* check_environment *)

\* a read that takes an unreadable descriptor for the first approved platform
product_name_assumed == IF dmi.readable THEN Strip(dmi.content) ELSE "VirtualBox"

\* lines 60-65: the descriptor read and stripped, "" when it cannot be read
product_name == IF dmi.readable THEN Strip(dmi.content) ELSE ""

ApprovedPlatform(name) == Contains(name, "VirtualBox") \/ Contains(name, "VMware")

\* check_environment without its UEFI check
EnvironmentFailureSkipsUefi ==
    IF euid # 0 THEN "This script must be run as root."
    ELSE IF ~archiso
        THEN "This does not appear to be a live Arch environment. Exiting."
    ELSE IF ~ApprovedPlatform(product_name)
        THEN "System does not appear to be running inside VMware or VirtualBox. Exiting."
    ELSE ""

\* the message of the first check that fails, "" when all four pass
EnvironmentFailure ==
    IF euid # 0 THEN "This script must be run as root."
    ELSE IF ~archiso
        THEN "This does not appear to be a live Arch environment. Exiting."
    ELSE IF ~efi THEN "System is not booted in UEFI mode. Exiting."
    ELSE IF ~ApprovedPlatform(product_name)
        THEN "System does not appear to be running inside VMware or VirtualBox. Exiting."
    ELSE ""

check_environment ==
    /\ pc = "check_environment"
    /\ IF EnvironmentFailure # ""
       THEN /\ Say(<<EnvironmentFailure>>)
            /\ Exit(1)
            /\ stages' = Call("check_environment")
       ELSE /\ Say(<<"Environment check passed.">>)
            /\ pc' = "list_artifacts"
            /\ stages' = CallAndReturn("check_environment")
            /\ UNCHANGED <<ip, exit_status>>
    /\ UNCHANGED <<answers, euid, archiso, efi, dmi, dev_size, cmds, requests, artifacts,
                   download_url, archive, tarball, cwd, disk, disk0, root,
                   identity, identity2, cmds2>>

----------------------------------------------------------------------------
(* download_artifact *)

expected_artifact == "arch-installation"
expected_name == "arch-custom-rootfs.tar.zst"

\* a scan that skips the entries without a download URL
FindArtifactWithUrl(arts) ==
    LET hits == {i \in 1..Len(arts) : /\ arts[i].name = expected_artifact
                                      /\ arts[i].archive_download_url # ""}
    IN  IF hits = {} THEN 0 ELSE CHOOSE i \in hits : \A j \in hits : i <= j

\* lines 98-102: the index of the first listing entry named expected_artifact,
\* 0 when the loop ends with artifact = None
FindArtifact(arts) ==
    LET hits == {i \in 1..Len(arts) : arts[i].name = expected_artifact}
    IN  IF hits = {} THEN 0 ELSE CHOOSE i \in hits : \A j \in hits : i <= j

\* a scan that tests `expected_name in name` instead of name.endswith
FindTarballContains(entries) ==
    LET hits == {i \in 1..Len(entries) : Contains(entries[i].name, expected_name)}
    IN  IF hits = {} THEN 0 ELSE CHOOSE i \in hits : \A j \in hits : i <= j

\* lines 122-126: the index of the first archive entry whose name ends with
\* expected_name, 0 when the loop ends with tarball_name = None
FindTarball(entries) ==
    LET hits == {i \in 1..Len(entries) : EndsWith(entries[i].name, expected_name)}
    IN  IF hits = {} THEN 0 ELSE CHOOSE i \in hits : \A j \in hits : i <= j

\* lines 107-108: the download URL of the entry the scan found, "" when the
\* entry has none (or the scan found no entry)
ArtifactUrl(arts) ==
    IF FindArtifact(arts) = 0 THEN "" ELSE arts[FindArtifact(arts)].archive_download_url

\* lines 87-110: the message the listing response r ends the run with, "" when
\* the run goes on
ListingFailure(r) ==
    IF r.raised THEN Traceback("requests.exceptions.ConnectionError")
    ELSE IF r.status_code # 200
        THEN "Failed to fetch artifact list from GitHub API. Exiting."
    ELSE IF r.artifacts = <<>> THEN "No artifacts found in repository. Exiting."
    ELSE IF FindArtifact(r.artifacts) = 0 THEN "Desired artifact not found. Exiting."
    ELSE IF ArtifactUrl(r.artifacts) = "" THEN "Artifact download URL not found. Exiting."
    ELSE ""

\* a download whose status is not tested
DownloadFailureIgnoresStatus(r) ==
    IF r.raised THEN Traceback("requests.exceptions.ConnectionError")
    ELSE IF ~r.zip THEN Traceback("zipfile.BadZipFile: File is not a zip file")
    ELSE ""

\* lines 113-119: the message the download response r ends the run with
DownloadFailure(r) ==
    IF r.raised THEN Traceback("requests.exceptions.ConnectionError")
    ELSE IF r.status_code # 200 THEN "Failed to download artifact. Exiting."
    ELSE IF ~r.zip THEN Traceback("zipfile.BadZipFile: File is not a zip file")
    ELSE ""

\* lines 86-110: the listing request and the choice of the artifact
download_artifact_list ==
    /\ pc = "list_artifacts"
    /\ \E r \in ListingResponses :
        LET failure == ListingFailure(r)
        IN  /\ requests' = Append(requests, [url |-> api_url, status_code |-> r.status_code])
            /\ artifacts' = IF r.raised \/ r.status_code # 200 THEN <<>> ELSE r.artifacts
            /\ IF failure # ""
               THEN /\ Say(<<"Fetching artifact list from GitHub API...", failure>>)
                    /\ Exit(1)
                    /\ UNCHANGED download_url
               ELSE /\ Say(<<"Fetching artifact list from GitHub API...">>)
                    /\ pc' = "download_archive"
                    /\ download_url' = ArtifactUrl(r.artifacts)
                    /\ UNCHANGED <<ip, exit_status>>
    /\ stages' = Call("download_artifact")
    /\ UNCHANGED <<answers, euid, archiso, efi, dmi, dev_size, cmds, archive, tarball, cwd,
                   disk, disk0, root, identity, identity2, cmds2>>

\* lines 112-119: the download request and the opening of the zip archive
download_artifact_get ==
    /\ pc = "download_archive"
    /\ \E r \in ArchiveResponses :
        LET failure == DownloadFailure(r)
        IN  /\ requests' = Append(requests, [url |-> download_url,
                                             status_code |-> r.status_code])
            /\ archive' = IF failure # "" THEN <<>> ELSE r.entries
            \* the listing is not read again after line 107
            /\ artifacts' = <<>>
            /\ IF failure # ""
               THEN /\ Say(<<"Downloading artifact from GitHub...", failure>>)
                    /\ Exit(1)
               ELSE /\ Say(<<"Downloading artifact from GitHub...">>)
                    /\ pc' = "open_archive"
                    /\ UNCHANGED <<ip, exit_status>>
    /\ UNCHANGED <<answers, euid, archiso, efi, dmi, dev_size, cmds, download_url,
                   tarball, cwd, disk, disk0, root, identity, identity2, cmds2, stages>>

\* lines 120-141: the choice of the payload, its extraction and its move to
\* the working directory; `outside` is the file the member name denotes when it
\* is an absolute path (-1: there is none, else its size)
download_artifact_extract ==
    /\ pc = "open_archive"
    /\ \E io_ok \in BOOLEAN, outside \in {-1, 0, 5} :
        LET found == FindTarball(archive)
            tarball_name == archive[found].name
            written == ZipArcname(tarball_name)
            extracted == {f \in cwd : f.path # written}
                            \cup {[path |-> written, size |-> archive[found].size]}
            base_name == Basename(tarball_name)
            moved_size == IF IsAbsolute(tarball_name) THEN outside ELSE archive[found].size
            kept == IF IsAbsolute(tarball_name) THEN extracted
                    ELSE {f \in extracted : f.path # written}
            moved == {f \in kept : f.path # base_name}
                        \cup {[path |-> base_name, size |-> moved_size]}
            extracting == "Extracting " \o tarball_name \o " from artifact..."
            Fail(lines, files) ==
                /\ Say(lines)
                /\ Exit(1)
                /\ cwd' = files
                /\ UNCHANGED <<tarball, artifacts, download_url, archive, stages>>
            Succeed(path, files) ==
                /\ Say(<<extracting, "Artifact extracted to: " \o path>>)
                /\ cwd' = files
                /\ tarball' = path
                /\ artifacts' = <<>>
                /\ download_url' = ""
                /\ archive' = <<>>
                /\ pc' = "partition_disk"
                /\ ip' = 0
                /\ stages' = Return("download_artifact")
                /\ UNCHANGED exit_status
        IN  IF found = 0
                THEN Fail(<<"Tarball not found in artifact archive. Exiting.">>, cwd)
            ELSE IF ~io_ok
                THEN Fail(<<extracting, Traceback("OSError")>>, cwd)
            ELSE IF Dirname(tarball_name) = ""
                THEN Succeed(tarball_name, extracted)
            ELSE IF moved_size = -1
                THEN Fail(<<extracting, Traceback("FileNotFoundError")>>, extracted)
            ELSE Succeed(base_name, moved)
    /\ UNCHANGED <<answers, euid, archiso, efi, dmi, dev_size, cmds, requests, disk, disk0,
                   root, identity, identity2, cmds2>>

----------------------------------------------------------------------------
(* run_cmd *)

\* the exit status of `sh -c line` when the tool it starts exits with tool_status
ShellStatus(line, tool_status) == IF EndsWith(line, "|| true") THEN 0 ELSE tool_status

\* subprocess.run without check: no exit status raises
RaisesNever(check, status) == FALSE

\* a run_cmd that takes exit status 1 for success
RaisesAboveOne(check, status) == check /\ status > 1

\* subprocess.run(..., check=check) raises CalledProcessError
Raises(check, status) == check /\ status # 0

RunCmdOutput(cmd, check, status) ==
    <<"Running: " \o cmd>> \o
    IF Raises(check, status)
    THEN <<Traceback("subprocess.CalledProcessError: Command '" \o cmd
                        \o "' returned non-zero exit status.")>>
    ELSE <<>>

\* run_cmd(cmd, check) in this run and run_cmd(cmd2, check) in the shadow run,
\* the tool started exiting with tool_status in both
run_cmd(cmd, cmd2, check, tool_status) ==
    /\ printed' = printed \o RunCmdOutput(cmd, check, ShellStatus(cmd, tool_status))
    /\ cmds' = Append(cmds, [line |-> cmd, tool |-> tool_status,
                             status |-> ShellStatus(cmd, tool_status)])
    /\ printed2' = printed2 \o RunCmdOutput(cmd2, check, ShellStatus(cmd2, tool_status))
    /\ cmds2' = Append(cmds2, [line |-> cmd2, tool |-> tool_status,
                               status |-> ShellStatus(cmd2, tool_status)])

----------------------------------------------------------------------------
(* partition_disk *)

target_disk == "/dev/sda"

\* partition_disk creating the root partition before the swap partition
PartitionCommandsRootFirst(d) ==
    << [line |-> "umount " \o d \o "* || true", check |-> FALSE],
       [line |-> "sgdisk --zap-all " \o d, check |-> TRUE],
       [line |-> "wipefs -a " \o d, check |-> TRUE],
       [line |-> "parted --script " \o d \o " mklabel gpt", check |-> TRUE],
       [line |-> "parted --script " \o d \o " mkpart primary fat32 1MiB 2049MiB",
        check |-> TRUE],
       [line |-> "parted --script " \o d \o " set 1 esp on", check |-> TRUE],
       [line |-> "parted --script " \o d \o " mkpart primary ext4 10241MiB 100%",
        check |-> TRUE],
       [line |-> "parted --script " \o d \o " mkpart primary linux-swap 2049MiB 10241MiB",
        check |-> TRUE],
       [line |-> "mkfs.fat -F32 " \o d \o "1", check |-> TRUE],
       [line |-> "mkswap " \o d \o "2", check |-> TRUE],
       [line |-> "mkfs.ext4 " \o d \o "3", check |-> TRUE],
       [line |-> "mount " \o d \o "3 /mnt", check |-> TRUE],
       [line |-> "mkdir -p /mnt/boot", check |-> TRUE],
       [line |-> "mount " \o d \o "1 /mnt/boot", check |-> TRUE],
       [line |-> "swapon " \o d \o "2", check |-> TRUE] >>

\* partition_disk mounting the root partition before it is formatted
PartitionCommandsMountFirst(d) ==
    << [line |-> "umount " \o d \o "* || true", check |-> FALSE],
       [line |-> "sgdisk --zap-all " \o d, check |-> TRUE],
       [line |-> "wipefs -a " \o d, check |-> TRUE],
       [line |-> "parted --script " \o d \o " mklabel gpt", check |-> TRUE],
       [line |-> "parted --script " \o d \o " mkpart primary fat32 1MiB 2049MiB",
        check |-> TRUE],
       [line |-> "parted --script " \o d \o " set 1 esp on", check |-> TRUE],
       [line |-> "parted --script " \o d \o " mkpart primary linux-swap 2049MiB 10241MiB",
        check |-> TRUE],
       [line |-> "parted --script " \o d \o " mkpart primary ext4 10241MiB 100%",
        check |-> TRUE],
       [line |-> "mkfs.fat -F32 " \o d \o "1", check |-> TRUE],
       [line |-> "mkswap " \o d \o "2", check |-> TRUE],
       [line |-> "mount " \o d \o "3 /mnt", check |-> TRUE],
       [line |-> "mkfs.ext4 " \o d \o "3", check |-> TRUE],
       [line |-> "mkdir -p /mnt/boot", check |-> TRUE],
       [line |-> "mount " \o d \o "1 /mnt/boot", check |-> TRUE],
       [line |-> "swapon " \o d \o "2", check |-> TRUE] >>

\* lines 155-180: the commands of partition_disk(d), in program order
PartitionCommands(d) ==
    << [line |-> "umount " \o d \o "* || true", check |-> FALSE],
       [line |-> "sgdisk --zap-all " \o d, check |-> TRUE],
       [line |-> "wipefs -a " \o d, check |-> TRUE],
       [line |-> "parted --script " \o d \o " mklabel gpt", check |-> TRUE],
       [line |-> "parted --script " \o d \o " mkpart primary fat32 1MiB 2049MiB",
        check |-> TRUE],
       [line |-> "parted --script " \o d \o " set 1 esp on", check |-> TRUE],
       [line |-> "parted --script " \o d \o " mkpart primary linux-swap 2049MiB 10241MiB",
        check |-> TRUE],
       [line |-> "parted --script " \o d \o " mkpart primary ext4 10241MiB 100%",
        check |-> TRUE],
       [line |-> "mkfs.fat -F32 " \o d \o "1", check |-> TRUE],
       [line |-> "mkswap " \o d \o "2", check |-> TRUE],
       [line |-> "mkfs.ext4 " \o d \o "3", check |-> TRUE],
       [line |-> "mount " \o d \o "3 /mnt", check |-> TRUE],
       [line |-> "mkdir -p /mnt/boot", check |-> TRUE],
       [line |-> "mount " \o d \o "1 /mnt/boot", check |-> TRUE],
       [line |-> "swapon " \o d \o "2", check |-> TRUE] >>

\* what parted makes of the mkpart command at position i on a device of `size`
\* MiB: the partition's type, first and last MiB
MkpartRequest(i, size) ==
    CASE i = 5 -> [type |-> "fat32", first |-> 1, last |-> 2049]
      [] i = 7 -> [type |-> "linux-swap", first |-> 2049, last |-> 10241]
      [] i = 8 -> [type |-> "ext4", first |-> 10241, last |-> size]

IsMkpart(i) == i \in {5, 7, 8}

\* the exit statuses the tool of command i can end with: parted rejects a
\* partition that does not lie inside the device, umount fails when nothing is
\* mounted, and any tool can fail for a reason of its own
ToolStatuses(i, d, size) ==
    IF i = 1 THEN (IF d.mounted THEN {0, 32} ELSE {32})
    ELSE IF IsMkpart(i) /\ ~(MkpartRequest(i, size).first < MkpartRequest(i, size).last
                             /\ MkpartRequest(i, size).last <= size)
        THEN {1}
    ELSE {0, 1}

\* the device after the tool of command i has succeeded on device state d
DiskAfter(i, d, size) ==
    CASE i = 1 -> [d EXCEPT !.mounted = FALSE]
      [] i = 2 -> [d EXCEPT !.table = "none", !.parts = <<>>]
      [] i = 3 -> [d EXCEPT !.signatures = "none"]
      [] i = 4 -> [d EXCEPT !.table = "gpt", !.parts = <<>>]
      [] IsMkpart(i) ->
            [d EXCEPT !.parts = Append(@, [type |-> MkpartRequest(i, size).type,
                                           first |-> MkpartRequest(i, size).first,
                                           last |-> MkpartRequest(i, size).last,
                                           esp |-> FALSE, fs |-> "none"])]
      [] i = 6 -> [d EXCEPT !.parts[1].esp = TRUE]
      [] i = 9 -> [d EXCEPT !.parts[1].fs = "vfat"]
      [] i = 10 -> [d EXCEPT !.parts[2].fs = "swap"]
      [] i = 11 -> [d EXCEPT !.parts[3].fs = "ext4"]
      [] i = 12 -> [d EXCEPT !.mounts = @ \cup {<<3, "/mnt">>}]
      [] i = 13 -> d
      [] i = 14 -> [d EXCEPT !.mounts = @ \cup {<<1, "/mnt/boot">>}]
      [] i = 15 -> [d EXCEPT !.swap = @ \cup {2}]

\* a prompt that swallows the interrupt and the end of input
InputRaisesNothing(answer) == ""

\* input(prompt) / getpass.getpass(prompt): the exception the call raises for
\* what the operator does, "" when it returns the line typed
InputRaises(answer) ==
    IF answer = Interrupt THEN "KeyboardInterrupt"
    ELSE IF answer = EndOfFile THEN "EOFError: EOF when reading a line"
    ELSE ""

\* an interpreter that ends with status 0 on an uncaught exception
UncaughtStatusZero(exception) == 0

\* the exit status of the interpreter ending on the uncaught exception
UncaughtStatus(exception) == IF exception = "KeyboardInterrupt" THEN 130 ELSE 1

AnswerKind(answer) ==
    IF answer = Interrupt THEN "interrupt" ELSE IF answer = EndOfFile THEN "eof" ELSE "line"

\* lines 151-152: the warning and the confirmation prompt
partition_disk_confirm ==
    /\ pc = "partition_disk"
    /\ ip = 0
    /\ stages' = Call("partition_disk")
    /\ \E answer \in {"", "y", Interrupt, EndOfFile} :
        LET prompt == "Press Enter to continue or Ctrl+C to abort..."
            asked == <<"WARNING: This will wipe all data on " \o target_disk \o ".", prompt>>
        IN  /\ answers' = Append(answers, [prompt |-> prompt, kind |-> AnswerKind(answer),
                                         text |-> ""])
            /\ IF InputRaises(answer) # ""
               THEN /\ Say(Append(asked, Traceback(InputRaises(answer))))
                    /\ Exit(UncaughtStatus(InputRaises(answer)))
               ELSE /\ Say(asked)
                    /\ ip' = 1
                    /\ UNCHANGED <<pc, exit_status>>
    /\ UNCHANGED <<euid, archiso, efi, dmi, dev_size, cmds, requests, artifacts,
                   download_url, archive, tarball, cwd, disk, disk0, root,
                   identity, identity2, cmds2>>

\* lines 155-180: one run_cmd of partition_disk
partition_disk_step ==
    /\ pc = "partition_disk"
    /\ ip \in 1..Len(PartitionCommands(target_disk))
    /\ \E tool_status \in ToolStatuses(ip, disk, dev_size) :
        LET c == PartitionCommands(target_disk)[ip]
            status == ShellStatus(c.line, tool_status)
        IN  /\ run_cmd(c.line, c.line, c.check, tool_status)
            /\ disk' = IF tool_status = 0 THEN DiskAfter(ip, disk, dev_size) ELSE disk
            /\ root' = IF tool_status = 0 /\ ip = 13
                       THEN [root EXCEPT !.boot_dir = TRUE] ELSE root
            /\ IF Raises(c.check, status)
               THEN Exit(1) /\ UNCHANGED stages
               ELSE IF ip = Len(PartitionCommands(target_disk))
               THEN /\ pc' = "extract_tarball"
                    /\ ip' = 0
                    /\ stages' = Return("partition_disk")
                    /\ UNCHANGED exit_status
               ELSE /\ ip' = ip + 1
                    /\ UNCHANGED <<pc, exit_status, stages>>
    /\ UNCHANGED <<answers, euid, archiso, efi, dmi, dev_size, requests, artifacts,
                   download_url, archive, tarball, cwd, disk0, identity, identity2>>

----------------------------------------------------------------------------
(* extract_tarball and generate_fstab *)

HasContent(files, path) == \E f \in files : f.path = path /\ f.size > 0

\* line 186; tar fails on a missing or empty archive
extract_tarball ==
    /\ pc = "extract_tarball"
    /\ \E tool_status \in (IF HasContent(cwd, tarball) THEN {0, 2} ELSE {2}) :
        LET cmd == "tar --zstd -xpf " \o tarball \o " -C /mnt"
            status == ShellStatus(cmd, tool_status)
        IN  /\ run_cmd(cmd, cmd, TRUE, tool_status)
            /\ root' = IF tool_status = 0 THEN [root EXCEPT !.extracted = TRUE] ELSE root
            /\ IF Raises(TRUE, status)
               THEN Exit(1) /\ stages' = Call("extract_tarball")
               ELSE /\ pc' = "generate_fstab"
                    /\ stages' = CallAndReturn("extract_tarball")
                    /\ UNCHANGED <<ip, exit_status>>
    /\ UNCHANGED <<answers, euid, archiso, efi, dmi, dev_size, requests, artifacts,
                   download_url, archive, tarball, cwd, disk, disk0, identity, identity2>>

\* line 192
generate_fstab ==
    /\ pc = "generate_fstab"
    /\ \E tool_status \in {0, 1} :
        LET cmd == "genfstab -U /mnt >> /mnt/etc/fstab"
            status == ShellStatus(cmd, tool_status)
        IN  /\ run_cmd(cmd, cmd, TRUE, tool_status)
            /\ root' = IF tool_status = 0 THEN [root EXCEPT !.fstab = TRUE] ELSE root
            /\ IF Raises(TRUE, status)
               THEN Exit(1) /\ stages' = Call("generate_fstab")
               ELSE /\ pc' = "configure_chroot"
                    /\ ip' = 1
                    /\ stages' = CallAndReturn("generate_fstab")
                    /\ UNCHANGED exit_status
    /\ UNCHANGED <<answers, euid, archiso, efi, dmi, dev_size, requests, artifacts,
                   download_url, archive, tarball, cwd, disk, disk0, identity, identity2>>

----------------------------------------------------------------------------
(* configure_chroot *)

mount_root == "/mnt"

\* a control script that does not stop at its first failing command
ScriptPrologueNoErrexit == << "#!/bin/bash", "", "" >>

\* lines 205-207: the interpreter line and the strict-fail mode of the script
ScriptPrologue == << "#!/bin/bash", "set -e", "" >>

\* lines 205-267: the text of the control script, line by line
ChrootScript(id) ==
    ScriptPrologue \o
    << "# Set hostname and hosts file.",
       "echo \"" \o id.hostname \o "\" > /etc/hostname",
       "cat <<EOF > /etc/hosts",
       "127.0.0.1   localhost",
       "::1         localhost",
       "127.0.1.1   " \o id.hostname \o ".localdomain " \o id.hostname,
       "EOF",
       "",
       "# Set timezone.",
       "ln -sf /usr/share/zoneinfo/Asia/Tehran /etc/localtime",
       "hwclock --systohc",
       "",
       "# Set locale.",
       "sed -i 's/^#en_US.UTF-8 UTF-8/en_US.UTF-8 UTF-8/' /etc/locale.gen",
       "locale-gen",
       "echo \"LANG=en_US.UTF-8\" > /etc/locale.conf",
       "",
       "# Set root password.",
       "echo \"root:" \o id.root_password \o "\" | chpasswd",
       "",
       "# Create the user with wheel group (for sudo) and zsh as shell.",
       "useradd -m -G wheel -s /bin/zsh " \o id.username,
       "echo \"" \o id.username \o ":" \o id.user_password \o "\" | chpasswd",
       "",
       "# Allow wheel group sudo privileges.",
       "sed -i 's/^# %wheel ALL=(ALL) ALL/%wheel ALL=(ALL) ALL/' /etc/sudoers",
       "",
       "# Install systemd-boot.",
       "bootctl install",
       "",
       "# Create loader configuration.",
       "mkdir -p /boot/loader/entries",
       "cat <<EOL > /boot/loader/loader.conf",
       "default  arch",
       "timeout  5",
       "editor   no",
       "EOL",
       "",
       "# Create boot entry for Arch Linux.",
       "# Adjust kernel names as needed.",
       "KERNEL_IMG=$(ls /boot/vmlinuz-linux* | head -n 1)",
       "INITRAMFS_IMG=$(ls /boot/initramfs-linux* | head -n 1)",
       "if [ -z \"$KERNEL_IMG\" ] || [ -z \"$INITRAMFS_IMG\" ]; then",
       "  echo \"Kernel or initramfs not found in /boot. Exiting.\"",
       "  exit 1",
       "fi",
       "",
       "# Determine PARTUUID for the root partition.",
       "ROOT_PART=$(findmnt -n -o SOURCE /)",
       "PARTUUID=$(blkid -s PARTUUID -o value $ROOT_PART)",
       "",
       "cat <<EOL > /boot/loader/entries/arch.conf",
       "title   Arch Linux",
       "linux   /$(basename $KERNEL_IMG)",
       "initrd  /$(basename $INITRAMFS_IMG)",
       "options root=PARTUUID=$PARTUUID rw",
       "EOL",
       "",
       "exit" >>

\* line 268: os.path.join(mnt, "tmp", "chroot_script.sh")
ScriptPath(mnt) == mnt \o "/tmp/chroot_script.sh"

\* configure_chroot setting the root password from the command line
ConfigureCommandsLeaky(mnt, id) ==
    << "chmod +x " \o ScriptPath(mnt),
       "echo 'root:" \o id.root_password \o "' | arch-chroot " \o mnt \o " chpasswd",
       "rm " \o ScriptPath(mnt) >>

\* configure_chroot releasing the mounts below the new root when it is done
ConfigureCommandsUnmounting(mnt, id) ==
    << "chmod +x " \o ScriptPath(mnt),
       "arch-chroot " \o mnt \o " /tmp/chroot_script.sh",
       "umount -R " \o mnt >>

\* lines 272, 275, 278: the commands of configure_chroot(mnt), in program order
ConfigureCommands(mnt, id) ==
    << "chmod +x " \o ScriptPath(mnt),
       "arch-chroot " \o mnt \o " /tmp/chroot_script.sh",
       "rm " \o ScriptPath(mnt) >>

\* configure_chroot asking for the two passwords before the two names
PromptsSecretsFirst ==
    << [text |-> "Enter password for the user: ", field |-> "user_password",
        typed |-> SecretsTyped, secret |-> TRUE],
       [text |-> "Enter root password: ", field |-> "root_password",
        typed |-> SecretsTyped, secret |-> TRUE],
       [text |-> "Enter hostname for the system: ", field |-> "hostname",
        typed |-> HostnamesTyped, secret |-> FALSE],
       [text |-> "Enter username to create: ", field |-> "username",
        typed |-> UsernamesTyped, secret |-> FALSE] >>

\* lines 199-202: the four prompts; the last two are read without echo
Prompts ==
    << [text |-> "Enter hostname for the system: ", field |-> "hostname",
        typed |-> HostnamesTyped, secret |-> FALSE],
       [text |-> "Enter username to create: ", field |-> "username",
        typed |-> UsernamesTyped, secret |-> FALSE],
       [text |-> "Enter password for the user: ", field |-> "user_password",
        typed |-> SecretsTyped, secret |-> TRUE],
       [text |-> "Enter root password: ", field |-> "root_password",
        typed |-> SecretsTyped, secret |-> TRUE] >>

\* a prompt whose answer is stored as it was typed
AnsweredUnstripped(id, field, typed) == [id EXCEPT ![field] = typed]

\* what reading one prompt stores in the identity
Answered(id, field, typed) == [id EXCEPT ![field] = Strip(typed)]

configure_chroot_prompt ==
    /\ pc = "configure_chroot"
    /\ ip \in 1..Len(Prompts)
    /\ stages' = IF ip = 1 THEN Call("configure_chroot") ELSE stages
    /\ LET p == Prompts[ip]
       IN  \E typed \in p.typed \cup {Interrupt, EndOfFile}, typed2 \in p.typed :
            \* the shadow run is given another secret at each hidden prompt
            /\ typed2 # typed
            /\ answers' = Append(answers,
                    [prompt |-> p.text, kind |-> AnswerKind(typed),
                     text |-> IF p.secret \/ InputRaises(typed) # "" THEN "" ELSE typed])
            /\ IF InputRaises(typed) # ""
               THEN /\ Say(<<p.text, Traceback(InputRaises(typed))>>)
                    /\ Exit(UncaughtStatus(InputRaises(typed)))
                    /\ UNCHANGED <<identity, identity2>>
               ELSE /\ Say(<<p.text>>)
                    /\ identity' = Answered(identity, p.field, typed)
                    /\ identity2' = Answered(identity2, p.field,
                                             IF p.secret THEN typed2 ELSE typed)
                    /\ ip' = ip + 1
                    /\ UNCHANGED <<pc, exit_status>>
    /\ UNCHANGED <<euid, archiso, efi, dmi, dev_size, cmds, requests, artifacts,
                   download_url, archive, tarball, cwd, disk, disk0, root, cmds2>>

\* lines 268-271: the script is written below the new root
configure_chroot_write ==
    /\ pc = "configure_chroot"
    /\ ip = Len(Prompts) + 1
    /\ \E io_ok \in BOOLEAN :
        IF io_ok
        THEN /\ root' = [root EXCEPT !.script = ChrootScript(identity), !.script_mode = "rw"]
             /\ ip' = ip + 1
             /\ UNCHANGED <<pc, exit_status, printed, printed2>>
        ELSE /\ Say(<<Traceback("OSError")>>)
             /\ Exit(1)
             /\ UNCHANGED root
    /\ UNCHANGED <<answers, euid, archiso, efi, dmi, dev_size, cmds, requests, artifacts,
                   download_url, archive, tarball, cwd, disk, disk0, identity,
                   identity2, cmds2, stages>>

\* the files below the new root after chmod (i = 1) or rm (i = 3) succeeded
RootAfter(i, r) ==
    CASE i = 1 -> [r EXCEPT !.script_mode = "rwx"]
      [] i = 3 -> [r EXCEPT !.script = <<>>, !.script_mode = ""]

----------------------------------------------------------------------------
(* bash running the control script inside the new root (line 275) *)

\* the end tag of the here-document a command `cat <<TAG ...` opens on line l,
\* "" when l opens none
HeredocTag(l) ==
    IF ~StartsWith(l, "cat <<") THEN ""
    ELSE LET rest == SubSeq(l, 7, Len(l))
             spaces == {i \in 1..Len(rest) : SubSeq(rest, i, i) = " "}
             stop == IF spaces = {} THEN Len(rest) + 1
                     ELSE CHOOSE i \in spaces : \A j \in spaces : i <= j
         IN  SubSeq(rest, 1, stop - 1)

\* the line that closes the command opened by line l: the end tag of its
\* here-document, the `fi` of an `if`, "" when l is a command of one line
ClosingLine(l) ==
    IF StartsWith(l, "cat <<") THEN HeredocTag(l)
    ELSE IF StartsWith(l, "if ") THEN "fi"
    ELSE ""

\* the first line after line i that reads `closing`; i when there is none
FirstAfter(text, i, closing) ==
    IF closing = "" \/ \A j \in (i + 1)..Len(text) : text[j] # closing THEN i
    ELSE CHOOSE j \in (i + 1)..Len(text) :
            /\ text[j] = closing
            /\ \A k \in (i + 1)..(j - 1) : text[k] # closing

\* the last line of the command opened on line i
BlockEnd(text, i) ==
    CHOOSE j \in {FirstAfter(text, i, closing) : closing \in {ClosingLine(text[i])}} : TRUE

\* the commands of the script: [first, last] line of each, in order; empty
\* lines and comment lines are no commands
ScriptCommands(text) ==
    LET from[i \in 1..(Len(text) + 1)] ==
            IF i > Len(text) THEN <<>>
            ELSE IF text[i] = "" \/ StartsWith(text[i], "#") THEN from[i + 1]
            ELSE <<[first |-> i, last |-> BlockEnd(text, i)]>> \o from[BlockEnd(text, i) + 1]
    IN  from[1]

\* What bash does with command k of the script `text`, whose commands are cs.
\* world.fail_at is the command that exits non-zero when it is run (0: none;
\* the status of a pipeline is that of its last tool, so a lookup
\* `VAR=$(ls ... | head -n 1)` of an absent file leaves VAR empty and exits 0),
\* world.missing the boot image absent from /boot ("": none).

\* line 206: `set -e` was run before command k
Errexit(text, cs, k) == \E j \in 1..(k - 1) : text[cs[j].first] = "set -e"

\* the exit status of command k; lines 250-253 end with 1 when either image
\* variable is empty, and a bare `exit` has the status of the command before it
CommandStatus(text, cs, k, world) ==
    LET StatusOf(j) ==
            IF text[cs[j].first] = "set -e" THEN 0
            ELSE IF StartsWith(text[cs[j].first], "if ")
                THEN IF world.missing # "" THEN 1 ELSE 0
            ELSE IF world.fail_at = j THEN 1 ELSE 0
    IN  IF text[cs[k].first] # "exit" THEN StatusOf(k)
        ELSE IF k = 1 THEN 0
        ELSE StatusOf(k - 1)

\* command k is the last one bash runs
EndsScript(text, cs, k, world) ==
    \/ text[cs[k].first] = "exit"
    \/ StartsWith(text[cs[k].first], "if ") /\ world.missing # ""
    \/ CommandStatus(text, cs, k, world) # 0 /\ Errexit(text, cs, k)

\* the last command bash runs: the first that ends the script, else the last
LastCommand(text, cs, world) ==
    IF \A k \in 1..Len(cs) : ~EndsScript(text, cs, k, world) THEN Len(cs)
    ELSE CHOOSE k \in 1..Len(cs) :
            /\ EndsScript(text, cs, k, world)
            /\ \A j \in 1..(k - 1) : ~EndsScript(text, cs, j, world)

\* bash running the script `text`, whose commands are cs: the commands run, in
\* order, each with its exit status, and the exit status of the script
RunScript(text, cs, world) ==
    CHOOSE result \in
        {[ran |-> [k \in 1..n |-> [line |-> text[cs[k].first],
                                    status |-> CommandStatus(text, cs, k, world)]],
          status |-> IF n = 0 THEN 0 ELSE CommandStatus(text, cs, n, world)] :
            n \in {LastCommand(text, cs, world)}} : TRUE

\* what can happen inside the new root, one fault at most; invoked = FALSE:
\* arch-chroot fails before it starts the script
ChrootWorlds(cs) ==
    {[invoked |-> FALSE, fail_at |-> 0, missing |-> ""]}
        \cup {[invoked |-> TRUE, fail_at |-> k, missing |-> ""] : k \in 0..Len(cs)}
        \cup {[invoked |-> TRUE, fail_at |-> 0, missing |-> m] : m \in {"kernel", "initramfs"}}

\* line 275: run_cmd of the boundary call, the script running inside it
configure_chroot_run ==
    /\ pc = "configure_chroot"
    /\ ip = Len(Prompts) + 3
    /\ \E cs \in {ScriptCommands(root.script)} :
       \E world \in ChrootWorlds(cs) :
       \E result \in {RunScript(root.script, cs, world)} :
        LET cmd == ConfigureCommands(mount_root, identity)[2]
            cmd2 == ConfigureCommands(mount_root, identity2)[2]
            tool_status == IF world.invoked THEN result.status ELSE 1
        IN  /\ run_cmd(cmd, cmd2, TRUE, tool_status)
            /\ root' = [root EXCEPT !.ran = IF world.invoked THEN result.ran ELSE <<>>,
                                    !.missing = world.missing,
                                    !.configured = (tool_status = 0)]
            /\ IF Raises(TRUE, ShellStatus(cmd, tool_status))
               THEN Exit(1)
               ELSE /\ ip' = ip + 1
                    /\ UNCHANGED <<pc, exit_status>>
    /\ UNCHANGED <<answers, euid, archiso, efi, dmi, dev_size, requests, artifacts,
                   download_url, archive, tarball, cwd, disk, disk0, identity,
                   identity2, stages>>

----------------------------------------------------------------------------
(* configure_chroot, continued *)

\* lines 272 and 278: the run_cmd before and the run_cmd after the boundary call
configure_chroot_step ==
    /\ pc = "configure_chroot"
    /\ ip \in {Len(Prompts) + 2, Len(Prompts) + 4}
    /\ \E tool_status \in {0, 1} :
        LET i == ip - Len(Prompts) - 1
            cmd == ConfigureCommands(mount_root, identity)[i]
            cmd2 == ConfigureCommands(mount_root, identity2)[i]
        IN  /\ run_cmd(cmd, cmd2, TRUE, tool_status)
            /\ root' = IF tool_status = 0 THEN RootAfter(i, root) ELSE root
            /\ IF Raises(TRUE, ShellStatus(cmd, tool_status))
               THEN Exit(1) /\ UNCHANGED stages
               ELSE IF i = 3
               THEN /\ pc' = "complete"
                    /\ ip' = 0
                    /\ stages' = Return("configure_chroot")
                    /\ UNCHANGED exit_status
               ELSE /\ ip' = ip + 1
                    /\ UNCHANGED <<pc, exit_status, stages>>
    /\ UNCHANGED <<answers, euid, archiso, efi, dmi, dev_size, requests, artifacts,
                   download_url, archive, tarball, cwd, disk, disk0, identity, identity2>>

----------------------------------------------------------------------------
(* main *)

\* line 289, and the interpreter ending normally
main_complete ==
    /\ pc = "complete"
    /\ Say(<<"Installation complete. Please reboot.">>)
    /\ Exit(0)
    /\ UNCHANGED <<answers, euid, archiso, efi, dmi, dev_size, cmds, requests, artifacts,
                   download_url, archive, tarball, cwd, disk, disk0, root,
                   identity, identity2, cmds2, stages>>

Next ==
    \/ check_environment
    \/ download_artifact_list
    \/ download_artifact_get
    \/ download_artifact_extract
    \/ partition_disk_confirm
    \/ partition_disk_step
    \/ extract_tarball
    \/ generate_fstab
    \/ configure_chroot_prompt
    \/ configure_chroot_write
    \/ configure_chroot_step
    \/ configure_chroot_run
    \/ main_complete

Spec == Init /\ [][Next]_vars

\* every call of the program is blocking and returns, and the operator answers
\* every prompt: a step that can be taken is taken
FairSpec == Spec /\ WF_vars(Next)

----------------------------------------------------------------------------
(* Vocabulary of the properties *)

Range(q) == {q[i] : i \in 1..Len(q)}

IsPrefix(a, b) == Len(a) <= Len(b) /\ a = SubSeq(b, 1, Len(a))

CommandLines(c) == [i \in 1..Len(c) |-> c[i].line]

\* the four safety predicates, read off the host
AllPredicatesHold ==
    /\ euid = 0
    /\ archiso
    /\ efi
    /\ dmi.readable
    /\ (Contains(dmi.content, "VirtualBox") \/ Contains(dmi.content, "VMware"))

\* nothing has been requested, issued, written or changed
NoSideEffect ==
    /\ requests = <<>>
    /\ cmds = <<>>
    /\ cwd = {}
    /\ disk = disk0
    /\ root.script = <<>> /\ ~root.extracted /\ ~root.fstab /\ ~root.boot_dir

\* the run has ended in failure without reaching partition_disk
StoppedBeforeDisk ==
    /\ pc = "exited"
    /\ exit_status # 0
    /\ "partition_disk" \notin Range(stages.called)
    /\ answers = <<>>
    /\ cmds = <<>>
    /\ disk = disk0

\* entry i is the first entry of the listing with the expected artifact name
FirstNamed(arts, i) ==
    /\ i \in 1..Len(arts)
    /\ arts[i].name = "arch-installation"
    /\ \A j \in 1..(i - 1) : arts[j].name # "arch-installation"

\* entry i is the first entry of the archive whose name has the payload suffix
FirstSuffixed(entries, i) ==
    /\ i \in 1..Len(entries)
    /\ EndsWith(entries[i].name, "arch-custom-rootfs.tar.zst")
    /\ \A j \in 1..(i - 1) : ~EndsWith(entries[j].name, "arch-custom-rootfs.tar.zst")

ListingUnusable(status_code, arts) ==
    \/ status_code # 200
    \/ arts = <<>>
    \/ \A i \in 1..Len(arts) : arts[i].name # "arch-installation"
    \/ \E i \in 1..Len(arts) : FirstNamed(arts, i) /\ arts[i].archive_download_url = ""

----------------------------------------------------------------------------
(* C1 *)

\* C1: when at least one of the four safety predicates is false, the run is
\* either still at check_environment or has exited with a non-zero status, and
\* no network request, command or file write has been issued.
C1_UnsafeEnvironmentHasNoSideEffect ==
    ~AllPredicatesHold =>
        /\ pc \in {"check_environment", "exited"}
        /\ (pc = "exited" => exit_status # 0)
        /\ NoSideEffect

C1_Witness ==
    /\ pc = "exited"
    /\ euid = 0 /\ archiso /\ ~efi
    /\ dmi.readable /\ Contains(dmi.content, "VMware")

----------------------------------------------------------------------------
(* C2 *)

\* C2: the step that receives an unusable listing (non-success status, empty,
\* no entry named arch-installation, first such entry without a URL) and the
\* step that receives a non-success download status end the run with a
\* non-zero status, before the confirmation prompt and with no command issued
\* and the device as it was; an exited run takes no further step.
C2_FetchFailureStopsBeforeDisk ==
    [][ /\ pc # "exited"
        /\ (pc = "list_artifacts"
              /\ ListingUnusable(requests'[1].status_code, artifacts'))
            => StoppedBeforeDisk'
        /\ (pc = "download_archive" /\ requests'[2].status_code # 200)
            => StoppedBeforeDisk' ]_vars

C2_Witness ==
    /\ pc = "exited"
    /\ Len(requests) = 2
    /\ requests[2].status_code = 404

----------------------------------------------------------------------------
(* C3 *)

\* C3: when no entry of the downloaded archive ends with
\* arch-custom-rootfs.tar.zst, the step that scans it ends the run with a
\* non-zero status, extracts nothing and leaves the disk stage unreached.
C3_MissingPayloadStopsBeforeDisk ==
    [][ (/\ pc = "open_archive"
         /\ \A i \in 1..Len(archive) :
                ~EndsWith(archive[i].name, "arch-custom-rootfs.tar.zst"))
        => (StoppedBeforeDisk' /\ cwd' = {} /\ tarball' = "") ]_vars

C3_Witness ==
    /\ pc = "exited"
    /\ archive # <<>>
    /\ \A i \in 1..Len(archive) : ~EndsWith(archive[i].name, "arch-custom-rootfs.tar.zst")
    /\ printed[Len(printed)] = "Tarball not found in artifact archive. Exiting."

----------------------------------------------------------------------------
(* C4 *)

StageOrder ==
    << "check_environment", "download_artifact", "partition_disk",
       "extract_tarball", "generate_fstab", "configure_chroot" >>

Completion == "Installation complete. Please reboot."

\* C4: the stages are called in the fixed order, each after all earlier ones
\* have returned; a command that ends non-zero is the last one issued and the
\* run has then exited non-zero; a run that exits without all six stages
\* returned exits non-zero; completion is printed only after all six stages
\* returned with every command ended 0.
C4_StagesInOrderFailureStops ==
    /\ IsPrefix(stages.called, StageOrder)
    /\ IsPrefix(stages.returned, stages.called)
    /\ Len(stages.called) <= Len(stages.returned) + 1
    /\ \A i \in 1..Len(cmds) :
        cmds[i].status # 0 => i = Len(cmds) /\ pc = "exited" /\ exit_status # 0
    /\ (pc = "exited" /\ stages.returned # StageOrder) => exit_status # 0
    /\ (pc = "exited" /\ exit_status = 0) => Completion \in Range(printed)
    /\ Completion \in Range(printed) =>
        /\ stages.returned = StageOrder
        /\ \A i \in 1..Len(cmds) : cmds[i].status = 0
        /\ pc = "exited" /\ exit_status = 0

C4_Witness ==
    /\ pc = "exited"
    /\ exit_status = 0
    /\ stages.returned = StageOrder

----------------------------------------------------------------------------
(* C5 *)

ConfirmPrompt == "Press Enter to continue or Ctrl+C to abort..."

\* C5: a command has been issued or the device changed only if the first
\* prompt answered was the confirmation prompt and the operator typed a line;
\* if the operator interrupted (or closed the input) there, the run has exited
\* non-zero with no command issued and the device unchanged.
C5_NoDiskCommandBeforeConfirmation ==
    /\ (cmds # <<>> \/ disk # disk0) =>
        /\ Len(answers) >= 1
        /\ answers[1].prompt = ConfirmPrompt
        /\ answers[1].kind = "line"
    /\ (Len(answers) >= 1 /\ answers[1].kind # "line") =>
        /\ pc = "exited" /\ exit_status # 0
        /\ cmds = <<>> /\ disk = disk0

C5_Witness ==
    /\ pc = "exited"
    /\ Len(answers) = 1
    /\ answers[1].prompt = ConfirmPrompt
    /\ answers[1].kind = "interrupt"
    /\ disk.mounted

----------------------------------------------------------------------------
(* C6 *)

\* C6 (as claimed): a run that has ended after attempting the execution of the
\* control script has left no script file below the new root.
C6_ScriptDeletedAfterExecution ==
    (/\ pc = "exited"
     /\ \E i \in 1..Len(cmds) : cmds[i].line = "arch-chroot /mnt /tmp/chroot_script.sh")
    => root.script = <<>>

----------------------------------------------------------------------------
(* C7 *)

Secrets(id) == {id.user_password, id.root_password} \ {""}

\* C7: no line printed, no command line issued and no path written in the
\* working directory contains the user password or the root password, and the
\* run prints and issues exactly what the shadow run with other secrets does.
C7_SecretsNeverPrintedOrIssued ==
    /\ \A s \in Secrets(identity) :
        /\ \A i \in 1..Len(printed) : ~Contains(printed[i], s)
        /\ \A i \in 1..Len(cmds) : ~Contains(cmds[i].line, s)
        /\ \A f \in cwd : ~Contains(f.path, s)
    /\ printed = printed2
    /\ CommandLines(cmds) = CommandLines(cmds2)

C7_Witness ==
    /\ pc = "exited"
    /\ exit_status = 0
    /\ identity.root_password # identity2.root_password
    /\ identity.user_password # identity2.user_password
    /\ Len(cmds) = Len(PartitionCommands(target_disk)) + 5

----------------------------------------------------------------------------
(* C8 *)

ExpectedMkparts ==
    << "parted --script /dev/sda mkpart primary fat32 1MiB 2049MiB",
       "parted --script /dev/sda mkpart primary linux-swap 2049MiB 10241MiB",
       "parted --script /dev/sda mkpart primary ext4 10241MiB 100%" >>

Mkparts == SelectSeq(cmds, LAMBDA c : IsPrefix("parted --script /dev/sda mkpart ", c.line))

IsFormatOrMount(line) ==
    \/ IsPrefix("mkfs.", line)
    \/ IsPrefix("mkswap ", line)
    \/ IsPrefix("swapon ", line)
    \/ IsPrefix("mount ", line)

\* C8: on every device size the partition-creation commands issued are a
\* prefix of the fixed three (EFI, swap, root, with the fixed offsets), the ESP
\* flag being set right after the first; partition_disk returns only after all
\* three; a format or mount command is issued only after all three ended 0,
\* so never on a device smaller than 10241MiB.
C8_FixedThreePartitionLayout ==
    /\ IsPrefix(CommandLines(Mkparts), ExpectedMkparts)
    /\ Len(Mkparts) >= 2 =>
        \E i \in 1..Len(cmds) :
            /\ cmds[i].line = "parted --script /dev/sda set 1 esp on"
            /\ cmds[i].status = 0
            /\ cmds[i - 1].line = ExpectedMkparts[1]
    /\ "partition_disk" \in Range(stages.returned) => Len(Mkparts) = 3
    /\ \A i \in 1..Len(cmds) :
        IsFormatOrMount(cmds[i].line) =>
            /\ dev_size > 10241
            /\ Len(Mkparts) = 3
            /\ \A k \in 1..3 : Mkparts[k].status = 0

C8_Witness ==
    /\ pc = "exited"
    /\ dev_size < 10241
    /\ Len(Mkparts) = 2
    /\ cmds[Len(cmds)].line = ExpectedMkparts[2]
    /\ cmds[Len(cmds)].status # 0

----------------------------------------------------------------------------
(* C9 *)

\* C9 (as claimed): once download_artifact has returned, the working directory
\* holds a non-empty file at the path it returned.
C9_ReturnedArtifactExistsNonEmpty ==
    "download_artifact" \in Range(stages.returned) =>
        \E f \in cwd : f.path = tarball /\ f.size > 0

----------------------------------------------------------------------------
(* C10 *)

----------------------------------------------------------------------------
(* C11 *)

\* the commands of the control script, by how each begins, in the order of
\* the steps: hostname/hosts, timezone/clock, locale, root password, user,
\* sudoers, boot manager, loader configuration, boot entry
StepOrder ==
    << "echo \"", "cat <<EOF > /etc/hosts",
       "ln -sf /usr/share/zoneinfo/", "hwclock --systohc",
       "sed -i 's/^#en_US.UTF-8", "locale-gen", "echo \"LANG=",
       "echo \"root:",
       "useradd ", "echo \"",
       "sed -i 's/^# %wheel",
       "bootctl install",
       "mkdir -p /boot/loader/entries", "cat <<EOL > /boot/loader/loader.conf",
       "KERNEL_IMG=", "INITRAMFS_IMG=", "if [ -z ", "ROOT_PART=", "PARTUUID=",
       "cat <<EOL > /boot/loader/entries/arch.conf",
       "exit" >>

\* the commands the script has run, the shell option aside
StepsRun == SelectSeq(root.ran, LAMBDA r : r.line # "set -e")

BootEntryStep == "cat <<EOL > /boot/loader/entries/arch.conf"

BoundaryCall == "arch-chroot /mnt /tmp/chroot_script.sh"

\* the command writing the boot entry ran and ended with status 0
BootEntryWritten ==
    \E i \in 1..Len(StepsRun) : StepsRun[i].line = BootEntryStep /\ StepsRun[i].status = 0

\* C11: the commands the control script has run are the first commands of the
\* fixed step order, none skipped; a command that ended non-zero is the last
\* one run; and when a command ended non-zero, or the script was started with
\* the kernel or the initramfs image absent, the boot entry was not written
\* and the boundary call ended non-zero.
C11_ScriptStopsAtFirstFailingStep ==
    /\ Len(StepsRun) <= Len(StepOrder)
    /\ \A i \in 1..Len(StepsRun) :
        /\ StartsWith(StepsRun[i].line, StepOrder[i])
        /\ StepsRun[i].status # 0 => i = Len(StepsRun)
    /\ (StepsRun # <<>>
            /\ (root.missing # "" \/ \E i \in 1..Len(StepsRun) : StepsRun[i].status # 0))
        => /\ ~BootEntryWritten
           /\ \E k \in 1..Len(cmds) : cmds[k].line = BoundaryCall /\ cmds[k].status # 0
           /\ ~root.configured
    /\ BootEntryWritten => Len(StepsRun) = Len(StepOrder) /\ root.configured

\* the boot manager could not be installed: the script ran up to that step
C11_Witness ==
    /\ pc = "exited"
    /\ Len(StepsRun) = 12
    /\ StepsRun[12].line = "bootctl install"
    /\ StepsRun[12].status # 0
    /\ StepsRun[1].line = "echo \"vmhost\" > /etc/hostname"

----------------------------------------------------------------------------
(* C12 *)

\* main ran to its end: the six stages returned and the completion was printed
Completed ==
    /\ stages.returned = StageOrder
    /\ printed # <<>>
    /\ printed[Len(printed)] = Completion

\* C12: every run comes to an end (no step is possible after it), and it ends
\* in exactly one of two ways: completed with exit status 0, or not completed
\* with an exit status other than 0.
C12_EveryRunEndsInOneOutcome ==
    <>(/\ pc = "exited"
       /\ \/ exit_status = 0 /\ Completed
          \/ exit_status # 0 /\ ~Completed)

\* a run that went through all six stages and ended with status 0
C12_Witness ==
    /\ pc = "exited"
    /\ exit_status = 0
    /\ Completed
    /\ root.configured

----------------------------------------------------------------------------
(* C13 *)

\* the hosts-file line and the user-creation step for hostname h, username u
HostsLine(h) == "127.0.1.1   " \o h \o ".localdomain " \o h

UserCreation(u) == "useradd -m -G wheel -s /bin/zsh " \o u

\* what the operator typed at the hostname and at the username prompt
HostnameEntered == answers[2].text

UsernameEntered == answers[3].text

\* C13 as stated: the script written holds the hosts-file line and the
\* user-creation step for the hostname and the username exactly as typed.
C13_ScriptNamesWhatWasTyped ==
    root.script # <<>> =>
        /\ HostsLine(HostnameEntered) \in Range(root.script)
        /\ UserCreation(UsernameEntered) \in Range(root.script)

\* C13: the script written holds the hosts-file line and the user-creation
\* step for the hostname and the username typed, each without the white space
\* around it.
C13_ScriptNamesStrippedAnswers ==
    root.script # <<>> =>
        /\ HostsLine(Strip(HostnameEntered)) \in Range(root.script)
        /\ UserCreation(Strip(UsernameEntered)) \in Range(root.script)

\* the script was written after the hostname was typed with spaces around it
C13_Witness ==
    /\ root.script # <<>>
    /\ HostnameEntered = " vmhost "
    /\ UsernameEntered = "alice"
    /\ "127.0.1.1   vmhost.localdomain vmhost" \in Range(root.script)
    /\ "useradd -m -G wheel -s /bin/zsh alice" \in Range(root.script)

----------------------------------------------------------------------------
(* C14 *)

\* the order of the commands of the disk stage, by how each begins: unmount,
\* destroy table and signatures, label, create 1, 2, 3, format 1, 2, 3, mount
\* root, create /mnt/boot, mount EFI, activate swap
DiskOrder ==
    << "umount /dev/sda",
       "sgdisk --zap-all /dev/sda", "wipefs -a /dev/sda",
       "parted --script /dev/sda mklabel gpt",
       "parted --script /dev/sda mkpart primary fat32 ",
       "parted --script /dev/sda mkpart primary linux-swap ",
       "parted --script /dev/sda mkpart primary ext4 ",
       "mkfs.fat -F32 /dev/sda1", "mkswap /dev/sda2", "mkfs.ext4 /dev/sda3",
       "mount /dev/sda3 /mnt",
       "mkdir -p /mnt/boot",
       "mount /dev/sda1 /mnt/boot",
       "swapon /dev/sda2" >>

IsCreate(line) == StartsWith(line, "parted --script /dev/sda mkpart ")

IsFormat(line) == StartsWith(line, "mkfs.") \/ StartsWith(line, "mkswap ")

IsMountOrActivate(line) == StartsWith(line, "mount ") \/ StartsWith(line, "swapon ")

\* the commands issued so far by the disk stage, the setting of the ESP flag aside
DiskCommandsIssued ==
    SelectSeq(cmds, LAMBDA c :
        /\ ~StartsWith(c.line, "tar ") /\ ~StartsWith(c.line, "genfstab ")
        /\ ~StartsWith(c.line, "chmod ") /\ ~StartsWith(c.line, "arch-chroot ")
        /\ ~StartsWith(c.line, "rm ")
        /\ c.line # "parted --script /dev/sda set 1 esp on")

\* how many of the commands before position k satisfy Is and ended with status 0
SucceededBefore(k, Is(_)) ==
    Cardinality({j \in 1..(k - 1) : Is(cmds[j].line) /\ cmds[j].status = 0})

\* C14: the commands the disk stage has issued are the first commands of the
\* fixed order; a format command is issued only after three partitions were
\* created with status 0, and a mount or swapon only after three partitions
\* were formatted with status 0.
C14_DiskCommandsInOrder ==
    /\ \A issued \in {DiskCommandsIssued} :
        /\ Len(issued) <= Len(DiskOrder)
        /\ \A i \in 1..Len(issued) : StartsWith(issued[i].line, DiskOrder[i])
    /\ \A k \in 1..Len(cmds) :
        /\ IsFormat(cmds[k].line) => SucceededBefore(k, IsCreate) = 3
        /\ IsMountOrActivate(cmds[k].line) => SucceededBefore(k, IsFormat) = 3

\* the disk stage ran to its end: swap was activated after all the others
C14_Witness ==
    /\ Len(DiskCommandsIssued) = Len(DiskOrder)
    /\ cmds[15].line = "swapon /dev/sda2"
    /\ cmds[15].status = 0
    /\ disk.swap = {2}

----------------------------------------------------------------------------
(* C15 *)

InitialUnmount == "umount /dev/sda* || true"

\* C15: when the tool of the initial unmount ended non-zero the run went on to
\* the wipe; when the tool of any other command ended non-zero, that command is
\* the last one issued and the run has ended with a status other than 0.
C15_OnlyUnmountFailureIsIgnored ==
    \A k \in 1..Len(cmds) :
        cmds[k].tool # 0 =>
            IF cmds[k].line = InitialUnmount
            THEN /\ k = 1
                 /\ Len(cmds) = 1 => pc = "partition_disk" /\ exit_status = 0
                 /\ Len(cmds) > 1 => cmds[2].line = "sgdisk --zap-all /dev/sda"
            ELSE /\ k = Len(cmds)
                 /\ pc = "exited"
                 /\ exit_status # 0

\* the unmount failed, the wipe went on, and the run ended when parted failed
C15_Witness ==
    /\ pc = "exited"
    /\ Len(cmds) = 4
    /\ cmds[1].line = InitialUnmount
    /\ cmds[1].tool = 32
    /\ cmds[2].status = 0
    /\ cmds[4].tool = 1
    /\ disk.table = "none"

----------------------------------------------------------------------------
(* C16 *)

PlatformMessage ==
    "System does not appear to be running inside VMware or VirtualBox. Exiting."

\* the descriptor names neither vendor
NamesNoVendor == ~Contains(dmi.content, "VirtualBox") /\ ~Contains(dmi.content, "VMware")

\* the outcome of a validation that fails on the platform predicate
RejectedAsPlatform ==
    /\ pc \in {"check_environment", "exited"}
    /\ stages.returned = <<>>
    /\ NoSideEffect
    /\ answers = <<>>
    /\ pc = "exited" =>
        /\ exit_status # 0
        /\ (euid = 0 /\ archiso /\ efi) => printed = <<PlatformMessage>> /\ exit_status = 1

\* C16: a run on a host whose product-name descriptor cannot be read has the
\* outcome of a validation failing on the platform predicate - it ends non-zero
\* inside check_environment, with the platform message when the three other
\* predicates hold - and so has a run whose descriptor is readable and names
\* neither vendor.
C16_UnreadableDescriptorIsRejected ==
    /\ ~dmi.readable => RejectedAsPlatform
    /\ (dmi.readable /\ NamesNoVendor) => RejectedAsPlatform

\* root on a live UEFI system whose descriptor cannot be read: rejected
C16_Witness ==
    /\ ~dmi.readable
    /\ euid = 0 /\ archiso /\ efi
    /\ pc = "exited"
    /\ exit_status = 1
    /\ printed = <<PlatformMessage>>

----------------------------------------------------------------------------
(* C17 *)

\* no value occurs twice in the sequence q
NoRepeat(q) == \A i \in 1..Len(q) : \A j \in (i + 1)..Len(q) : q[i] # q[j]

\* C17: no request URL, no command line and no stage occurs twice in the run;
\* a request that did not end with 200 and a command that ended non-zero is the
\* last of its kind, and nothing at all follows a failed request.
C17_NothingIssuedTwice ==
    /\ NoRepeat([i \in 1..Len(requests) |-> requests[i].url])
    /\ NoRepeat(CommandLines(cmds))
    /\ NoRepeat(stages.called)
    /\ NoRepeat(stages.returned)
    /\ \A k \in 1..Len(requests) :
        requests[k].status_code # 200 => k = Len(requests) /\ cmds = <<>>
    /\ \A k \in 1..Len(cmds) : cmds[k].status # 0 => k = Len(cmds)

\* the extraction failed after both requests and the whole disk stage: the run
\* ended with each of them issued once
C17_Witness ==
    /\ pc = "exited"
    /\ Len(requests) = 2
    /\ Len(cmds) = 16
    /\ StartsWith(cmds[16].line, "tar --zstd -xpf ")
    /\ cmds[16].status # 0
    /\ stages.called = <<"check_environment", "download_artifact", "partition_disk",
                         "extract_tarball">>

----------------------------------------------------------------------------
(* C18 *)

\* a command that releases a mount, turns swap off or restores a partition table
IsUndo(line) ==
    \/ StartsWith(line, "umount ")
    \/ StartsWith(line, "swapoff ")
    \/ StartsWith(line, "sgdisk --load-backup")

\* C18: no step outside the disk stage changes the device, no step takes a
\* mount or an active swap away, a step that ends the run in failure leaves
\* the device and the populated root as they were, and no command after the
\* first one unmounts, turns swap off or restores.
C18_NoStageUndoesEffects ==
    [][/\ pc # "partition_disk" => disk' = disk
       /\ disk.mounts \subseteq disk'.mounts
       /\ disk.swap \subseteq disk'.swap
       /\ (pc' = "exited" /\ exit_status' # 0) =>
            /\ disk' = disk
            /\ root'.extracted = root.extracted
            /\ root'.fstab = root.fstab
       /\ \A k \in 2..Len(cmds') : ~IsUndo(cmds'[k].line)]_vars

\* the extraction failed with the three partitions mounted and swap active:
\* they are left so
C18_Witness ==
    /\ pc = "exited"
    /\ exit_status # 0
    /\ Len(cmds) = 16
    /\ cmds[16].status # 0
    /\ disk.mounts = {<<3, "/mnt">>, <<1, "/mnt/boot">>}
    /\ disk.swap = {2}
    /\ disk.table = "gpt"

----------------------------------------------------------------------------
(* C19 *)

\* the prompts of a run, in order: the confirmation, then the identity
PromptOrder ==
    << ConfirmPrompt,
       "Enter hostname for the system: ", "Enter username to create: ",
       "Enter password for the user: ", "Enter root password: " >>

\* the device carries the three formatted partitions, mounted and active
DiskProvisioned ==
    /\ disk.table = "gpt"
    /\ Len(disk.parts) = 3
    /\ \A i \in 1..3 : disk.parts[i].fs # "none"
    /\ disk.mounts = {<<3, "/mnt">>, <<1, "/mnt/boot">>}
    /\ disk.swap = {2}

\* the control script is or was below the new root
ScriptWasWritten ==
    root.script # <<>> \/ \E k \in 1..Len(cmds) : StartsWith(cmds[k].line, "chmod +x ")

\* C19: the prompts answered are the first prompts of the order confirmation,
\* hostname, username, user password, root password; an identity prompt has
\* been shown only after partition_disk, extract_tarball and generate_fstab
\* returned, with the device provisioned and the root populated; the script is
\* written only after all four were answered with a line; a run that has not
\* entered configure_chroot holds no name and no secret; and no command at all
\* precedes the confirmation prompt, which alone precedes the commands of the
\* disk stage.
C19_IdentityPromptsAfterProvisioning ==
    /\ Len(answers) <= Len(PromptOrder)
    /\ \A k \in 1..Len(answers) : answers[k].prompt = PromptOrder[k]
    /\ Len(answers) >= 2 =>
        /\ IsPrefix(<<"check_environment", "download_artifact", "partition_disk",
                      "extract_tarball", "generate_fstab">>, stages.returned)
        /\ DiskProvisioned
        /\ root.extracted /\ root.fstab
        /\ Len(cmds) >= 17
    /\ ScriptWasWritten =>
        /\ Len(answers) = Len(PromptOrder)
        /\ \A k \in 1..Len(answers) : answers[k].kind = "line"
    /\ (\A k \in 1..Len(stages.called) : stages.called[k] # "configure_chroot") =>
        /\ identity = NoIdentity
        /\ Len(answers) <= 1
    /\ cmds # <<>> => answers # <<>> /\ answers[1].kind = "line"

\* the operator is asked for the root password: disk and root are ready, and
\* no script has been written yet
C19_Witness ==
    /\ pc = "configure_chroot"
    /\ Len(answers) = 4
    /\ identity.user_password # ""
    /\ identity.root_password = ""
    /\ root.script = <<>>
    /\ DiskProvisioned
    /\ root.extracted /\ root.fstab

====
